---- MODULE Spec2Model ----
(***************************************************************************)
(* Model of toml_to_json.py: convert_one (the per-record filter/reshape    *)
(* loop), merge_results (the fold into the aggregate) and main (the        *)
(* driver over the input paths).                                           *)
(*                                                                         *)
(* Python values are encoded uniformly:                                    *)
(*   - a str is a sequence of one-character strings;                       *)
(*   - an optional value (None or a value) is a sequence of length 0 or 1; *)
(*   - a list is a sequence;                                               *)
(*   - a dict is an association list, a sequence of [k, v] records in      *)
(*     insertion order (Python dicts keep insertion order and json.dumps   *)
(*     writes keys in that order); dict equality ignores the order.        *)
(***************************************************************************)
EXTENDS Integers, Sequences, FiniteSets, TLC

VARIABLES
    \* ---- convert_one, one loop iteration per step ----
    result,         \* the dict being built (line 40)
    agr,            \* the record of the last iteration (line 42)
    prev,           \* result as it was before the last iteration
    n,              \* number of records iterated so far
    passing,        \* how many of them pass every filter (PassesEveryFilter)
    \* ---- main ----
    pc,             \* "loop" (line 126), "done" (main returned), "failed" (main raised),
                    \* "idle" (main not running, in SpecConv)
    argc,           \* len(sys.argv) - 1
    idx,            \* number of input paths already visited by the loop (line 126)
    any_found,      \* line 125
    global_result,  \* line 123
    inputs,         \* per visited path: None if it did not exist, else Some(records read)
    warned,         \* indices of the paths reported missing (line 128)
    output          \* None, or Some(text written to output_path) (line 145)

convVars == <<result, agr, prev, n, passing>>
mainVars == <<pc, argc, idx, any_found, global_result, inputs, warned, output>>
vars == <<result, agr, prev, n, passing, pc, argc, idx, any_found, global_result, inputs, warned, output>>

----------------------------------------------------------------------------
(* Bounds *)

MaxRecs == 2        \* records iterated by one convert_one run
MaxArgs == 3        \* command-line arguments after the program name
MaxRead == 3        \* records read by one run of main, over all its input files

----------------------------------------------------------------------------
(* Python values *)

None == <<>>
Some(v) == <<v>>
Val(o) == o[1]

\* str literals, as character sequences
Str_empty == <<>>
Str_ed_HAM == <<"e", "d", "/", "H", "A", "M">>
Str_xx_lon == <<"x", "x", "/", "l", "o", "n">>
Str_ed_ == <<"e", "d", "/">>
Str_ed_BRE == <<"e", "d", "/", "B", "R", "E">>
Str_blank == <<" ">>
Str_ANKER == <<"A", "N", "K", "E", "R">>
Str_ANKER_padded == <<" ", "A", "N", "K", "E", "R", " ">>
Str_HAM == <<"H", "A", "M">>
Str_LON == <<"L", "O", "N">>
Str_BRE == <<"B", "R", "E">>

LowerCase == <<"a", "b", "c", "d", "e", "f", "g", "h", "i", "j", "k", "l", "m",
               "n", "o", "p", "q", "r", "s", "t", "u", "v", "w", "x", "y", "z">>
UpperCase == <<"A", "B", "C", "D", "E", "F", "G", "H", "I", "J", "K", "L", "M",
               "N", "O", "P", "Q", "R", "S", "T", "U", "V", "W", "X", "Y", "Z">>
Whitespace == {" ", "\t", "\n", "\r"}

\* str.upper()
UpperChar(c) ==
    IF \E i \in DOMAIN LowerCase : LowerCase[i] = c
    THEN UpperCase[CHOOSE i \in DOMAIN LowerCase : LowerCase[i] = c]
    ELSE c
Upper(s) == [i \in DOMAIN s |-> UpperChar(s[i])]

\* s.split("/")[-1]: what follows the last "/", the whole string if there is none
SplitLast(s) ==
    LET slashes == {i \in DOMAIN s : s[i] = "/"}
    IN  IF slashes = {} THEN s
        ELSE LET last == CHOOSE i \in slashes : \A j \in slashes : j <= i
             IN  SubSeq(s, last + 1, Len(s))

\* str.strip()
Strip(s) ==
    LET keep == {i \in DOMAIN s : s[i] \notin Whitespace}
    IN  IF keep = {} THEN <<>>
        ELSE LET lo == CHOOSE i \in keep : \A j \in keep : i <= j
                 hi == CHOOSE i \in keep : \A j \in keep : j <= i
             IN  SubSeq(s, lo, hi)

\* truthiness of an optional str or list: None, "" and [] are falsy
Truthy(o) == o # None /\ Val(o) # <<>>

\* dict operations on association lists
Has(d, k) == \E i \in DOMAIN d : d[i].k = k
Get(d, k) == d[CHOOSE i \in DOMAIN d : d[i].k = k].v
Put(d, k, v) ==
    IF Has(d, k)
    THEN [i \in DOMAIN d |-> IF d[i].k = k THEN [k |-> k, v |-> v] ELSE d[i]]
    ELSE Append(d, [k |-> k, v |-> v])
Keys(d) == {d[i].k : i \in DOMAIN d}

\* dict equality (==): same keys, same value under each key, whatever the order
RECURSIVE DictEq(_, _, _)
DictEq(a, b, depth) ==
    /\ Keys(a) = Keys(b)
    /\ \A k \in Keys(a) :
          IF depth = 0 THEN Get(a, k) = Get(b, k)
          ELSE DictEq(Get(a, k), Get(b, k), depth - 1)
\* equality of two results {sector: {list_name: [entry]}}
ResultEq(a, b) == DictEq(a, b, 1)

----------------------------------------------------------------------------
(* Inputs: the agreement records of the [[agreements]] tables *)

FromSectorVals == {None, Some(Str_ed_), Some(Str_ed_HAM), Some(Str_xx_lon)}
ToSectorVals == {None, Some(Str_ed_), Some(Str_ed_BRE)}
AdesVals == {None, Some(<<>>), Some(<<"EDDH">>)}
AdepVals == {None, Some(<<"EDDF">>)}
LevelVals == {None, Some(0), Some(80)}
CopVals == {None, Some(Str_blank), Some(Str_ANKER), Some(Str_ANKER_padded)}

Records ==
    [from_sector : FromSectorVals, to_sector : ToSectorVals, ades : AdesVals,
     adep : AdepVals, level : LevelVals, cop : CopVals]

\* an empty table: every key absent
EmptyAgr ==
    [from_sector |-> None, to_sector |-> None, ades |-> None, adep |-> None,
     level |-> None, cop |-> None]

\* dict.get(key, default) on an optional field
GetOr(o, default) == IF o = None THEN default ELSE Val(o)

----------------------------------------------------------------------------
(* sector_from_string and convert_one *)

sector_from_string(s) ==
    IF ~Truthy(s) THEN None ELSE Some(Upper(SplitLast(Val(s))))

\* "if from_sector is None" in place of "if not from_sector"
NoFromSector_IsNone(from_sector) == from_sector = None

\* line 45: if not from_sector: continue
NoFromSector(from_sector) == ~Truthy(from_sector)

\* adep looked at before ades
Classify_AdepFirst(ades, adep) ==
    IF Truthy(adep)
    THEN Some([list_name |-> "departureLoas", field_name |-> "origins",
               airports |-> Val(adep)])
    ELSE IF Truthy(ades)
    THEN Some([list_name |-> "destinationLoas", field_name |-> "destinations",
               airports |-> Val(ades)])
    ELSE None

\* lines 51-61: the list the record goes to, None for the final "continue"
Classify(ades, adep) ==
    IF Truthy(ades)
    THEN Some([list_name |-> "destinationLoas", field_name |-> "destinations",
               airports |-> Val(ades)])
    ELSE IF Truthy(adep)
    THEN Some([list_name |-> "departureLoas", field_name |-> "origins",
               airports |-> Val(adep)])
    ELSE None

\* lines 63-66: create the sector object and the list on first use
Materialize(res, from_sector, list_name) ==
    LET r1 == IF ~Has(res, from_sector) THEN Put(res, from_sector, <<>>) ELSE res
    IN  IF ~Has(Get(r1, from_sector), list_name)
        THEN Put(r1, from_sector, Put(Get(r1, from_sector), list_name, <<>>))
        ELSE r1

\* "and" in place of the first "or"
Skip_And(level, cop) ==
    level = 0 /\ (cop = None \/ Strip(Val(cop)) = Str_empty)

\* lines 68-73: level == 0 or cop is None or str(cop).strip() == ""
Skip(level, cop) ==
    level = 0 \/ cop = None \/ Strip(Val(cop)) = Str_empty

\* "if to_sector is not None" in place of "if to_sector"
NextSectors_NotNone(to_sector) == IF to_sector # None THEN <<Val(to_sector)>> ELSE <<>>

\* line 78: [to_sector] if to_sector else []
NextSectors(to_sector) == IF Truthy(to_sector) THEN <<Val(to_sector)>> ELSE <<>>

\* the trimmed cop stored in place of the raw one
MakeEntry_Trimmed(field_name, airports, level, to_sector, cop) ==
    (field_name :> airports) @@
    [xfl |-> level, nextSectors |-> IF Truthy(to_sector) THEN <<Val(to_sector)>> ELSE <<>>,
     copText |-> Strip(Val(cop)), waypoints |-> <<Strip(Val(cop))>>]

\* lines 75-81
MakeEntry(field_name, airports, level, to_sector, cop) ==
    (field_name :> airports) @@
    [xfl |-> level, nextSectors |-> NextSectors(to_sector),
     copText |-> Val(cop), waypoints |-> <<Val(cop)>>]

\* line 83: result[from_sector][list_name].append(entry)
AppendEntry(res, from_sector, list_name, entry) ==
    LET sec == Get(res, from_sector)
    IN  Put(res, from_sector, Put(sec, list_name, Append(Get(sec, list_name), entry)))

\* lines 42-83: one iteration of the loop over the agreements
ConvertStep(res, a) ==
    LET from_sector == sector_from_string(a.from_sector)
        to_sector == sector_from_string(a.to_sector)
        cls == Classify(a.ades, a.adep)
    IN  IF NoFromSector(from_sector) THEN res
        ELSE IF cls = None THEN res
        ELSE LET c == Val(cls)
                 r2 == Materialize(res, Val(from_sector), c.list_name)
                 level == GetOr(a.level, 0)
                 cop == a.cop
             IN  IF Skip(level, cop) THEN r2
                 ELSE AppendEntry(r2, Val(from_sector), c.list_name,
                                  MakeEntry(c.field_name, c.airports, level, to_sector, cop))

\* lines 37-85
RECURSIVE ConvertFrom(_, _, _)
ConvertFrom(res, agreements, i) ==
    IF i > Len(agreements) THEN res
    ELSE ConvertFrom(ConvertStep(res, agreements[i]), agreements, i + 1)
convert_one(agreements) == ConvertFrom(<<>>, agreements, 1)

----------------------------------------------------------------------------
(* merge_results *)

ListKeys == <<"destinationLoas", "departureLoas">>

\* the addition's entries put in front of the target's
MergeList_Prepend(tgt_sec, sec_cfg, key) ==
    IF Has(sec_cfg, key)
    THEN LET t1 == IF ~Has(tgt_sec, key) THEN Put(tgt_sec, key, <<>>) ELSE tgt_sec
         IN  Put(t1, key, Get(sec_cfg, key) \o Get(t1, key))
    ELSE tgt_sec

\* the target's list assigned instead of extended
MergeList_Assign(tgt_sec, sec_cfg, key) ==
    IF Has(sec_cfg, key) THEN Put(tgt_sec, key, Get(sec_cfg, key)) ELSE tgt_sec

\* "if sec_cfg.get(key)" in place of "if key in sec_cfg": an empty list is passed over
MergeList_SkipEmpty(tgt_sec, sec_cfg, key) ==
    IF Has(sec_cfg, key) /\ Get(sec_cfg, key) # <<>>
    THEN LET t1 == IF ~Has(tgt_sec, key) THEN Put(tgt_sec, key, <<>>) ELSE tgt_sec
         IN  Put(t1, key, Get(t1, key) \o Get(sec_cfg, key))
    ELSE tgt_sec

\* lines 98-101, for one key
MergeList(tgt_sec, sec_cfg, key) ==
    IF Has(sec_cfg, key)
    THEN LET t1 == IF ~Has(tgt_sec, key) THEN Put(tgt_sec, key, <<>>) ELSE tgt_sec
         IN  Put(t1, key, Get(t1, key) \o Get(sec_cfg, key))
    ELSE tgt_sec

\* lines 94-101, for one sector of the addition
MergeSector(target, sector, sec_cfg) ==
    LET t1 == IF ~Has(target, sector) THEN Put(target, sector, <<>>) ELSE target
        tgt_sec == Get(t1, sector)
    IN  Put(t1, sector,
            MergeList(MergeList(tgt_sec, sec_cfg, ListKeys[1]), sec_cfg, ListKeys[2]))

RECURSIVE MergeFrom(_, _, _)
MergeFrom(target, addition, i) ==
    IF i > Len(addition) THEN target
    ELSE MergeFrom(MergeSector(target, addition[i].k, addition[i].v), addition, i + 1)
merge_results(target, addition) == MergeFrom(target, addition, 1)

----------------------------------------------------------------------------
(* main *)

\* lines 109-120; a path is named by its position in sys.argv, 0 is LOA_INPUT.toml
input_paths(args) ==
    IF args = 0 THEN <<0>>
    ELSE IF args = 1 THEN <<1>>
    ELSE [i \in 1..(args - 1) |-> i]
\* 0 is loa_configs_json/LOA.json
output_path(args) == IF args <= 1 THEN 0 ELSE args

\* json.dumps: the document, every object written as its members in insertion order
JsonDumps(d) ==
    [i \in DOMAIN d |->
        <<d[i].k, [j \in DOMAIN d[i].v |-> <<d[i].v[j].k, d[i].v[j].v>>]>>]

\* the records an input file of a main run may hold
Agr(from_sector, to_sector, ades, adep, level) ==
    [from_sector |-> from_sector, to_sector |-> to_sector, ades |-> ades,
     adep |-> adep, level |-> level, cop |-> Some(Str_ANKER)]
FileRecords ==
    { Agr(Some(Str_ed_HAM), Some(Str_ed_BRE), Some(<<"EDDH">>), None, Some(80)),
      Agr(Some(Str_ed_HAM), None, Some(<<"EDDH">>), None, Some(80)),
      Agr(Some(Str_ed_HAM), Some(Str_ed_BRE), Some(<<"EDDH">>), None, Some(0)),
      Agr(Some(Str_ed_HAM), Some(Str_ed_BRE), None, Some(<<"EDDF">>), Some(80)),
      Agr(Some(Str_xx_lon), Some(Str_ed_BRE), Some(<<"EDDH">>), None, Some(80)),
      Agr(Some(Str_xx_lon), Some(Str_ed_BRE), None, Some(<<"EDDF">>), Some(80)) }
RECURSIVE SeqsUpTo(_, _)
SeqsUpTo(S, len) ==
    IF len = 0 THEN {<<>>}
    ELSE LET shorter == SeqsUpTo(S, len - 1)
         IN  shorter \cup {Append(s, x) : s \in shorter, x \in S}

\* the records read so far, over all the files, in reading order
RECURSIVE Joined(_, _)
Joined(ins, i) ==
    IF i > Len(ins) THEN <<>>
    ELSE (IF ins[i] = None THEN <<>> ELSE Val(ins[i])) \o Joined(ins, i + 1)
FileContents == SeqsUpTo(FileRecords, MaxRead - Len(Joined(inputs, 1)))

\* a missing path ends the run ("return" in place of "continue")
SkipMissing_Fatal ==
    /\ pc = "loop"
    /\ idx < Len(input_paths(argc))
    /\ warned' = Append(warned, input_paths(argc)[idx + 1])
    /\ inputs' = Append(inputs, None)
    /\ idx' = idx + 1
    /\ pc' = "done"
    /\ UNCHANGED <<argc, any_found, global_result, output>>
    /\ UNCHANGED convVars

\* lines 127-129: the path does not exist
SkipMissing ==
    /\ pc = "loop"
    /\ idx < Len(input_paths(argc))
    /\ warned' = Append(warned, input_paths(argc)[idx + 1])
    /\ inputs' = Append(inputs, None)
    /\ idx' = idx + 1
    /\ UNCHANGED <<pc, argc, any_found, global_result, output>>
    /\ UNCHANGED convVars

\* lines 130-135: the path exists and its text parses
ReadFile ==
    /\ pc = "loop"
    /\ idx < Len(input_paths(argc))
    /\ \E agreements \in FileContents :
          /\ global_result' = merge_results(global_result, convert_one(agreements))
          /\ inputs' = Append(inputs, Some(agreements))
    /\ any_found' = TRUE
    /\ idx' = idx + 1
    /\ UNCHANGED <<pc, argc, warned, output>>
    /\ UNCHANGED convVars

\* lines 130-133: the path exists and read_text or tomllib.loads raises
ReadFails ==
    /\ pc = "loop"
    /\ idx < Len(input_paths(argc))
    /\ any_found' = TRUE
    /\ pc' = "failed"
    /\ UNCHANGED <<argc, idx, global_result, inputs, warned, output>>
    /\ UNCHANGED convVars

\* lines 137-139: nothing was found, nothing is written
NothingToDo ==
    /\ pc = "loop"
    /\ idx = Len(input_paths(argc))
    /\ ~any_found
    /\ pc' = "done"
    /\ UNCHANGED <<argc, idx, any_found, global_result, inputs, warned, output>>
    /\ UNCHANGED convVars

\* lines 141-147
WriteOutput ==
    /\ pc = "loop"
    /\ idx = Len(input_paths(argc))
    /\ any_found
    /\ output' = Some([path |-> output_path(argc), text |-> JsonDumps(global_result)])
    /\ pc' = "done"
    /\ UNCHANGED <<argc, idx, any_found, global_result, inputs, warned>>
    /\ UNCHANGED convVars

ConvIdle == result = <<>> /\ agr = EmptyAgr /\ prev = <<>> /\ n = 0 /\ passing = 0
MainIdle ==
    /\ pc = "idle" /\ argc = 0 /\ idx = 0 /\ any_found = FALSE
    /\ global_result = <<>> /\ inputs = <<>> /\ warned = <<>> /\ output = None

\* main entered with any number of arguments up to MaxArgs, lines 104-125
Init ==
    /\ argc \in 0..MaxArgs
    /\ pc = "loop" /\ idx = 0 /\ any_found = FALSE
    /\ global_result = <<>> /\ inputs = <<>> /\ warned = <<>> /\ output = None
    /\ ConvIdle

Next == SkipMissing \/ ReadFile \/ ReadFails \/ NothingToDo \/ WriteOutput

Spec == Init /\ [][Next]_vars

----------------------------------------------------------------------------
(* convert_one on its own, one record per step *)

\* What the records are sorted by, stated on the raw fields of a record.
Blank(cop) == \A i \in DOMAIN cop : cop[i] \in Whitespace
HasSectorCode(a) ==
    /\ a.from_sector # None
    /\ Len(Val(a.from_sector)) > 0
    /\ Val(a.from_sector)[Len(Val(a.from_sector))] # "/"
HasAirports(a) ==
    \/ a.ades # None /\ Len(Val(a.ades)) > 0
    \/ a.adep # None /\ Len(Val(a.adep)) > 0
SkipRuleApplies(a) ==
    \/ a.level = None \/ a.level = Some(0)
    \/ a.cop = None \/ Blank(Val(a.cop))
PassesEveryFilter(a) == HasSectorCode(a) /\ HasAirports(a) /\ ~SkipRuleApplies(a)

\* lines 42-83 for the next record of the input
Iterate ==
    /\ n < MaxRecs
    /\ \E a \in Records :
          /\ agr' = a
          /\ result' = ConvertStep(result, a)
          /\ passing' = passing + (IF PassesEveryFilter(a) THEN 1 ELSE 0)
    /\ prev' = result
    /\ n' = n + 1
    /\ UNCHANGED mainVars

\* lines 39-40
InitConv == ConvIdle /\ MainIdle

NextConv == Iterate

SpecConv == InitConv /\ [][NextConv]_vars

----------------------------------------------------------------------------
(* Vocabulary of the properties *)

ListNames == {"destinationLoas", "departureLoas"}
HasList(res, sector, list_name) == Has(res, sector) /\ Has(Get(res, sector), list_name)
ListOf(res, sector, list_name) ==
    IF HasList(res, sector, list_name) THEN Get(Get(res, sector), list_name) ELSE <<>>

RECURSIVE SumLens(_, _)
SumLens(d, i) == IF i > Len(d) THEN 0 ELSE Len(d[i].v) + SumLens(d, i + 1)
RECURSIVE EntryCountFrom(_, _)
EntryCountFrom(res, i) ==
    IF i > Len(res) THEN 0 ELSE SumLens(res[i].v, 1) + EntryCountFrom(res, i + 1)
EntryCount(res) == EntryCountFrom(res, 1)

\* the lists of res2 that are the same list of res1 with one entry appended
Grown(res1, res2) ==
    {sl \in Keys(res2) \X ListNames :
        /\ Len(ListOf(res2, sl[1], sl[2])) = Len(ListOf(res1, sl[1], sl[2])) + 1
        /\ SubSeq(ListOf(res2, sl[1], sl[2]), 1, Len(ListOf(res1, sl[1], sl[2])))
              = ListOf(res1, sl[1], sl[2])}
LastOf(list) == list[Len(list)]
\* every list of res1 other than the one named is the same list in res2
OthersUntouched(res1, res2, sector, list_name) ==
    \A s \in Keys(res1) \cup Keys(res2) : \A k \in ListNames :
        (s # sector \/ k # list_name) =>
            /\ HasList(res1, s, k) = HasList(res2, s, k)
            /\ ListOf(res1, s, k) = ListOf(res2, s, k)

\* the sector code of a sector string: what follows its last "/", upper-cased
SectorCode(s) == Upper(SplitLast(s))
GoesToDestinations(a) == a.ades # None /\ Len(Val(a.ades)) > 0

ExampleAgr ==
    [from_sector |-> Some(Str_ed_HAM), to_sector |-> Some(Str_ed_BRE),
     ades |-> Some(<<"EDDH">>), adep |-> None, level |-> Some(80), cop |-> Some(Str_ANKER)]
ExampleEntry ==
    [destinations |-> <<"EDDH">>, xfl |-> 80, nextSectors |-> <<Str_BRE>>,
     copText |-> Str_ANKER, waypoints |-> <<Str_ANKER>>]

----------------------------------------------------------------------------
(* Properties of convert_one, under SpecConv *)

\* C1: a record discarded by the skip rule leaves no trace: every sector key of the
\* result holds at least one list and every list holds at least one entry (so an
\* input whose only HAM record has level 0 gives a result without HAM).
C1_NoTrace ==
    \A i \in DOMAIN result :
        /\ result[i].v # <<>>
        /\ \A j \in DOMAIN result[i].v : result[i].v[j].v # <<>>

\* The last record a is filed: exactly one entry is appended, to destinationLoas
\* (ades non-empty) or else departureLoas, under the sector code of from_sector, and
\* the entry is {destinations/origins: the airports as given, xfl: level, nextSectors,
\* copText: the raw cop, waypoints: [cop]}; every other list is as it was.
Filed(a) ==
    LET code == SectorCode(Val(a.from_sector))
        list_name == IF GoesToDestinations(a) THEN "destinationLoas" ELSE "departureLoas"
        field_name == IF GoesToDestinations(a) THEN "destinations" ELSE "origins"
        airports == IF GoesToDestinations(a) THEN Val(a.ades) ELSE Val(a.adep)
        list == ListOf(result, code, list_name)
    IN  /\ <<code, list_name>> \in Grown(prev, result)
        /\ OthersUntouched(prev, result, code, list_name)
        /\ DOMAIN LastOf(list) = {field_name, "xfl", "nextSectors", "copText", "waypoints"}
        /\ LastOf(list)[field_name] = airports
        /\ LastOf(list).xfl = Val(a.level)
        /\ LastOf(list).copText = Val(a.cop)
        /\ LastOf(list).waypoints = <<Val(a.cop)>>
        /\ a = ExampleAgr => code = Str_HAM /\ LastOf(list) = ExampleEntry

\* C2 as stated: every record with a non-empty from_sector, a non-empty ades or else
\* a non-empty adep, level # 0 and a cop that is neither null nor blank is filed.
C2_FiledWhenFromSectorNonEmpty ==
    (/\ n > 0
     /\ agr.from_sector # None /\ Val(agr.from_sector) # Str_empty
     /\ HasAirports(agr) /\ ~SkipRuleApplies(agr))
    => Filed(agr)

\* C2 amended: every record whose from_sector yields a non-empty sector code (it is
\* non-empty and does not end in "/"), with a non-empty ades or else a non-empty
\* adep, level # 0 and a cop that is neither null nor blank is filed.
C2_FiledWhenSectorCodeNonEmpty ==
    (n > 0 /\ PassesEveryFilter(agr)) => Filed(agr)

C2_Witness ==
    /\ n = 1 /\ agr = ExampleAgr
    /\ ListOf(result, Str_HAM, "destinationLoas") = <<ExampleEntry>>

\* C3: a record whose level is 0 or absent, or whose cop is null or blank, produces no
\* entry whatever its other fields are, and the number of entries of the result is the
\* number of records that pass every filter.
C3_NoEntryForSkipped ==
    /\ EntryCount(result) = passing
    /\ (n > 0 /\ SkipRuleApplies(agr)) =>
          \A s \in Keys(prev) \cup Keys(result) : \A k \in ListNames :
              ListOf(result, s, k) = ListOf(prev, s, k)

C3_Witness ==
    /\ n = 2 /\ passing = 1 /\ EntryCount(result) = 1
    /\ HasSectorCode(agr) /\ HasAirports(agr)
    /\ agr.level = Some(0) /\ agr.cop = Some(Str_ANKER)

C7_NoFromSectorNoChange ==
    (n > 0 /\ ~HasSectorCode(agr)) => result = prev

C7_Witness ==
    /\ n = 2 /\ EntryCount(prev) = 1
    /\ agr.from_sector = Some(Str_ed_) /\ HasAirports(agr) /\ ~SkipRuleApplies(agr)
    /\ result = prev

\* the entry the last record produced, if any
Produced ==
    {LastOf(ListOf(result, sl[1], sl[2])) : sl \in Grown(prev, result)}

\* C9 as stated: the entry a record produces has nextSectors = [to_sector code] when
\* the to_sector code is non-null and [] otherwise.
C9_NextSectorsWhenNonNull ==
    \A e \in Produced :
        e.nextSectors = IF sector_from_string(agr.to_sector) # None
                        THEN <<Val(sector_from_string(agr.to_sector))>>
                        ELSE <<>>

\* C9 amended: the entry a record produces has nextSectors = [to_sector code] when the
\* to_sector code is non-null and non-empty, and [] otherwise; so nextSectors never has
\* more than one element and never holds an empty string.
C9_NextSectorsWhenNonEmpty ==
    /\ \A e \in Produced :
          e.nextSectors = IF /\ sector_from_string(agr.to_sector) # None
                             /\ Val(sector_from_string(agr.to_sector)) # Str_empty
                          THEN <<Val(sector_from_string(agr.to_sector))>>
                          ELSE <<>>
    /\ \A i \in DOMAIN result : \A j \in DOMAIN result[i].v :
          \A m \in DOMAIN result[i].v[j].v :
              /\ Len(result[i].v[j].v[m].nextSectors) <= 1
              /\ \A x \in DOMAIN result[i].v[j].v[m].nextSectors :
                    result[i].v[j].v[m].nextSectors[x] # Str_empty

C9_Witness ==
    /\ n > 0 /\ agr.to_sector = Some(Str_ed_)
    /\ \E e \in Produced : e.nextSectors = <<>>

----------------------------------------------------------------------------
(* Properties of merge_results and main, under Spec *)

IsPrefix(a, b) == Len(a) <= Len(b) /\ SubSeq(b, 1, Len(a)) = a

\* the entries the files read so far give for one list, file after file
RECURSIVE ConcatOfInputs(_, _, _, _)
ConcatOfInputs(ins, sector, list_name, i) ==
    IF i > Len(ins) THEN <<>>
    ELSE (IF ins[i] = None THEN <<>>
          ELSE ListOf(convert_one(Val(ins[i])), sector, list_name))
         \o ConcatOfInputs(ins, sector, list_name, i + 1)

\* C4: for every sector and list key the aggregate list is the concatenation of each
\* input's entries for that sector and list, in file order.
C4_ConcatenationInFileOrder ==
    \A s \in Keys(global_result) \cup {Str_HAM, Str_LON} : \A k \in ListNames :
        ListOf(global_result, s, k) = ConcatOfInputs(inputs, s, k, 1)

C4_Witness ==
    /\ Len(inputs) = 2
    /\ inputs[1] # None /\ inputs[2] # None
    /\ Len(ListOf(global_result, Str_HAM, "destinationLoas")) = 2
    /\ ListOf(global_result, Str_HAM, "destinationLoas")[1] = ExampleEntry
    /\ ListOf(global_result, Str_HAM, "destinationLoas")[2] # ExampleEntry
    /\ ListOf(convert_one(Val(inputs[1])), Str_HAM, "destinationLoas") = <<ExampleEntry>>

\* C5: the aggregate only grows: a sector key is never removed, a list key is never
\* removed, and every list before a step is a prefix of the list after it.
C5_AggregateOnlyGrows ==
    [][\A s \in Keys(global_result) :
          /\ Has(global_result', s)
          /\ \A k \in ListNames :
                /\ HasList(global_result, s, k) => HasList(global_result', s, k)
                /\ IsPrefix(ListOf(global_result, s, k), ListOf(global_result', s, k))]_vars

C5_Witness ==
    /\ Len(inputs) = 2
    /\ inputs[1] # None /\ inputs[2] # None
    /\ Len(Val(inputs[1])) > 0 /\ Len(Val(inputs[2])) > 0
    /\ EntryCount(global_result) = 2
    /\ Len(ListOf(global_result, Str_HAM, "departureLoas")) = 2

\* the paths found missing, in visiting order, and the merge of the files read
RECURSIVE MissingPaths(_, _, _)
MissingPaths(paths, ins, i) ==
    IF i > Len(ins) THEN <<>>
    ELSE (IF ins[i] = None THEN <<paths[i]>> ELSE <<>>) \o MissingPaths(paths, ins, i + 1)
RECURSIVE MergedUpTo(_, _)
MergedUpTo(ins, i) ==
    IF i = 0 THEN <<>>
    ELSE IF ins[i] = None THEN MergedUpTo(ins, i - 1)
    ELSE merge_results(MergedUpTo(ins, i - 1), convert_one(Val(ins[i])))
SomeMissing == \E i \in DOMAIN inputs : inputs[i] = None
SomeFound == \E i \in DOMAIN inputs : inputs[i] # None

\* C8 as stated: when main has returned, with two or more arguments and a missing
\* input every path was visited and the output is written; with zero or one argument
\* and a missing input no output is written.
C8_MissingFatalOnlyInSingleForm ==
    pc = "done" =>
        /\ (argc >= 2 /\ SomeMissing) =>
              /\ Len(inputs) = Len(input_paths(argc))
              /\ global_result = MergedUpTo(inputs, Len(inputs))
              /\ output # None
        /\ (argc <= 1 /\ SomeMissing) => output = None

\* C8 amended: in every form a missing input is reported and skipped and every path is
\* visited; when main returns, every existing input has been converted and merged in
\* listed order, and the output is written exactly when at least one input exists. So
\* a missing input leaves the run without output when it is the only input (always so
\* with zero or one argument, and with two arguments) or when all inputs are missing.
C8_OutputIffSomeInputExists ==
    /\ pc # "done" => output = None
    /\ pc = "done" =>
          /\ Len(inputs) = Len(input_paths(argc))
          /\ warned = MissingPaths(input_paths(argc), inputs, 1)
          /\ global_result = MergedUpTo(inputs, Len(inputs))
          /\ (output # None) = SomeFound
          /\ output # None =>
                Val(output) = [path |-> output_path(argc), text |-> JsonDumps(global_result)]
          /\ (argc <= 1 /\ SomeMissing) => output = None

C8_Witness ==
    /\ pc = "done" /\ argc = 3
    /\ inputs[1] = None /\ inputs[2] # None
    /\ Val(inputs[2]) # <<>>
    /\ warned = <<1>>
    /\ output # None

\* two documents that differ at most in the order of the members of a sector object
SameUpToListKeyOrder(t1, t2) ==
    /\ Len(t1) = Len(t2)
    /\ \A i \in DOMAIN t1 :
          /\ t1[i][1] = t2[i][1]
          /\ Len(t1[i][2]) = Len(t2[i][2])
          /\ {t1[i][2][j] : j \in DOMAIN t1[i][2]} = {t2[i][2][j] : j \in DOMAIN t2[i][2]}
\* what main writes when the records of all the files are given in one file
OutputOfJoined == JsonDumps(merge_results(<<>>, convert_one(Joined(inputs, 1))))

\* C10 as stated: merging the conversions of the files one after the other gives a
\* mapping equal to the conversion of the concatenated records, and the output written
\* is the output written for the one joined file.
C10_SplitNeverChangesOutput ==
    /\ ResultEq(global_result, convert_one(Joined(inputs, 1)))
    /\ (pc = "done" /\ output # None) => Val(output).text = OutputOfJoined

\* C10 amended: merging the conversions of the files one after the other gives a
\* mapping equal (same sector keys, same list keys, same entry sequences) to the
\* conversion of the concatenated records; the output written is the output for the
\* joined file up to the order in which the two list keys of a sector are written.
C10_SplitGivesEqualMapping ==
    /\ ResultEq(global_result, convert_one(Joined(inputs, 1)))
    /\ (pc = "done" /\ output # None) =>
          SameUpToListKeyOrder(Val(output).text, OutputOfJoined)

C10_Witness ==
    /\ pc = "done" /\ output # None
    /\ Len(inputs) = 2 /\ inputs[1] # None /\ inputs[2] # None
    /\ Len(Val(inputs[1])) = 2 /\ Len(Val(inputs[2])) = 1
    /\ EntryCount(global_result) = 2
    /\ Val(output).text = OutputOfJoined

====
